---- MODULE Spec2Model ----
(***************************************************************************)
(* Model of drf_common_exceptions: the error flattener (utils.py) and the  *)
(* exception-to-response handler (handlers.py).                            *)
(*                                                                         *)
(* Python values are records [ty, s, n]: ty is the Python type, s the text *)
(* of a string as a sequence of segments (so that "the id is embedded in   *)
(* the message" is a statement about segments), n the number of an int.    *)
(***************************************************************************)
EXTENDS Integers, Sequences, FiniteSets, TLC

VARIABLES
    settings,     \* django.conf.settings: CUSTOM_BASE_EXCEPTION and DEBUG
    log,          \* records emitted through the two module loggers, in order
    uuids,        \* number of uuid.uuid4() values drawn so far
    last,         \* the latest handler call: its argument, outcome and log records
    calls,        \* number of handler calls made
    reached,      \* number of calls whose error rules 1 and 2 did not resolve
    resolutions,  \* number of import attempts made for CUSTOM_BASE_EXCEPTION
    error_data,   \* argument of the flatten_errors call
    messages,     \* its return value
    returned      \* whether flatten_errors has returned

vars == <<settings, log, uuids, last, calls, reached, resolutions,
          error_data, messages, returned>>

\* Bounds of the model.
MaxWidth == 2
MaxCalls == 2

----------------------------------------------------------------------------
\* Python values

StrVal(segments) == [ty |-> "str", s |-> segments, n |-> 0]
ErrorDetail(segments) == [ty |-> "ErrorDetail", s |-> segments, n |-> 0]
IntVal(k) == [ty |-> "int", s |-> <<>>, n |-> k]
NoneVal == [ty |-> "NoneType", s |-> <<>>, n |-> 0]
ListVal == [ty |-> "list", s |-> <<>>, n |-> 0]

\* isinstance(v, str): ErrorDetail is a subclass of str.
IsString(v) == v.ty \in {"str", "ErrorDetail"}

\* str(v): a string stays its text, an ErrorDetail loses its subclass, an
\* int is printed in decimal, None is "None", an empty list is "[]".
str(v) ==
    CASE v.ty = "str" -> v
      [] v.ty = "ErrorDetail" -> StrVal(v.s)
      [] v.ty = "int" -> StrVal(<<ToString(v.n)>>)
      [] v.ty = "NoneType" -> StrVal(<<"None">>)
      [] OTHER -> StrVal(<<"[]">>)

----------------------------------------------------------------------------
\* Error trees: what a response body holds

Leaf(v) == [t |-> "leaf", val |-> v]
List(items) == [t |-> "list", items |-> items]
Dict(items) == [t |-> "dict", items |-> items]

Key(i) == <<"a", "b", "c", "d", "e">>[i]

\* A dict literal with the values given, under the keys "a", "b", ...
DictOf(vals) == Dict([i \in 1..Len(vals) |-> [k |-> Key(i), v |-> vals[i]]])

\* Variant: iterating the dict itself, which yields its keys.
values_keys(data) == [i \in 1..Len(data.items) |-> Leaf(StrVal(<<data.items[i].k>>))]

\* dict.values(): the values in insertion order.
values(data) == [i \in 1..Len(data.items) |-> data.items[i].v]

RECURSIVE extract_messages(_), extend_each(_, _)

\* for item in items: messages.extend(extract_messages(item))
extend_each(items, i) ==
    IF i > Len(items) THEN <<>>
    ELSE extract_messages(items[i]) \o extend_each(items, i + 1)

extract_messages(data) ==
    IF data.t = "list" THEN extend_each(data.items, 1)
    ELSE IF data.t = "dict" THEN extend_each(values(data), 1)
    ELSE IF data.val.ty = "ErrorDetail" THEN <<str(data.val)>>
    ELSE <<str(data.val)>>

flatten_errors(data) == extract_messages(data)

\* The trees the flattener is run on: every tree of depth at most two whose
\* containers hold at most MaxWidth children, and the spec's own example.
LeafValues == {ErrorDetail(<<"x">>), IntVal(7)}

SeqsUpTo(S, k) == UNION {[1..m -> S] : m \in 0..k}

Containers(S) ==
    {List(items) : items \in SeqsUpTo(S, MaxWidth)}
        \cup {DictOf(items) : items \in SeqsUpTo(S, MaxWidth)}

Trees0 == {Leaf(v) : v \in LeafValues}
Trees1 == Trees0 \cup Containers(Trees0)
Trees2 == Trees1 \cup Containers(Trees1)

SpecExample ==
    DictOf(<<List(<<Leaf(StrVal(<<"x">>)), Leaf(StrVal(<<"y">>))>>),
             Leaf(StrVal(<<"z">>))>>)

Trees == Trees2 \cup {SpecExample}

----------------------------------------------------------------------------
\* Settings, and what importing the configured reference finds

\* A dotted reference is the sequence of its dot-separated components; the
\* empty string has none.
PathNone == [ty |-> "NoneType", parts |-> <<>>]
PathStr(parts) == [ty |-> "str", parts |-> parts]
PathInt == [ty |-> "int", parts |-> <<"123">>]

\* Python truth value of the setting: None and "" are false.
Truthy(path) == path.ty = "int" \/ (path.ty = "str" /\ path.parts # <<>>)

NoneObj == [kind |-> "NoneType", name |-> "None"]
ClassObj(name) == [kind |-> "class", name |-> name]
FunctionObj(name) == [kind |-> "function", name |-> name]

\* The importable modules and their attributes: one application module that
\* defines the base exception class AppBase and a function helper.
ModulePaths == {<<"app", "exceptions">>}
ModuleAttrs == [AppBase |-> ClassObj("AppBase"), helper |-> FunctionObj("helper")]

Paths ==
    { PathNone,                                   \* setting absent or None
      PathStr(<<>>),                              \* ""
      PathStr(<<"AppBase">>),                     \* no dot
      PathInt,                                    \* not a string
      PathStr(<<"missing", "AppBase">>),          \* module does not exist
      PathStr(<<"app", "exceptions", "Missing">>),\* attribute does not exist
      PathStr(<<"app", "exceptions", "AppBase">>),\* the base exception class
      PathStr(<<"app", "exceptions", "helper">>) }\* an object that is no class

Settings == [CUSTOM_BASE_EXCEPTION : Paths, DEBUG : BOOLEAN]

LogRecord(level, logger, msg, exc_info) ==
    [level |-> level, logger |-> logger, msg |-> msg, exc_info |-> exc_info]

\* The exception the try block of get_configured_base_exception_class
\* raises, or "" when it returns: rsplit on a non-string, unpacking fewer
\* than two parts, import_module, getattr.
ImportError(path) ==
    IF path.ty # "str" THEN "AttributeError"
    ELSE IF Len(path.parts) < 2 THEN "ValueError"
    ELSE IF SubSeq(path.parts, 1, Len(path.parts) - 1) \notin ModulePaths
        THEN "ModuleNotFoundError"
    ELSE IF path.parts[Len(path.parts)] \notin DOMAIN ModuleAttrs
        THEN "AttributeError"
    ELSE ""

CouldNotImport(path) ==
    LogRecord("warning", "utils",
              <<"Could not import CUSTOM_BASE_EXCEPTION: ">> \o path.parts
                  \o <<": ", ImportError(path)>>,
              <<>>)

\* Variant: the except branch returns None without logging.
get_configured_base_exception_class_silent(st) ==
    LET path == st.CUSTOM_BASE_EXCEPTION IN
    IF ~Truthy(path)
        THEN [value |-> NoneObj, log |-> <<>>, attempts |-> 0]
    ELSE IF ImportError(path) = ""
        THEN [value |-> ModuleAttrs[path.parts[Len(path.parts)]],
              log |-> <<>>, attempts |-> 1]
    ELSE [value |-> NoneObj, log |-> <<>>, attempts |-> 1]

\* Variant: no "if not path" guard, so an unset reference is imported too.
get_configured_base_exception_class_unguarded(st) ==
    LET path == st.CUSTOM_BASE_EXCEPTION IN
    IF ImportError(path) = ""
        THEN [value |-> ModuleAttrs[path.parts[Len(path.parts)]],
              log |-> <<>>, attempts |-> 1]
    ELSE [value |-> NoneObj, log |-> <<CouldNotImport(path)>>, attempts |-> 1]

\* [value, log, attempts]: the object returned, the records logged and the
\* number of import attempts made (nothing is cached between calls).
get_configured_base_exception_class(st) ==
    LET path == st.CUSTOM_BASE_EXCEPTION IN
    IF ~Truthy(path)
        THEN [value |-> NoneObj, log |-> <<>>, attempts |-> 0]
    ELSE IF ImportError(path) = ""
        THEN [value |-> ModuleAttrs[path.parts[Len(path.parts)]],
              log |-> <<>>, attempts |-> 1]
    ELSE [value |-> NoneObj, log |-> <<CouldNotImport(path)>>, attempts |-> 1]

----------------------------------------------------------------------------
\* Errors handed to the handler

\* What rest_framework.views.exception_handler returns for an exception:
\* None, or a response with a body and a status code.
NoResponse == [handled |-> FALSE, data |-> Leaf(NoneVal), status_code |-> 0]
DrfResponse(data, status_code) ==
    [handled |-> TRUE, data |-> data, status_code |-> status_code]

\* A rest_framework Response object returned by hand from a view.
ManualResponse(data, status_code) ==
    [cls |-> "Response", data |-> data, status_code |-> status_code,
     drf |-> NoResponse, mro |-> {}, attrs |-> {},
     message |-> NoneVal, code |-> NoneVal,
     text |-> <<>>, trace |-> <<>>]

\* A raised exception: the classes it is an instance of, the attributes it
\* carries, str(exc) and the text traceback.format_exc() gives for it.
Raised(drf, mro, attrs, message, trace) ==
    [cls |-> "Exception", data |-> Leaf(NoneVal), status_code |-> 401,
     drf |-> drf, mro |-> mro, attrs |-> attrs,
     message |-> message, code |-> StrVal(<<"AUTH001">>),
     text |-> <<"str(exc)">>, trace |-> trace]

Markers == {"AppBase", "DjangoValidationError", "ObjectDoesNotExist", "IntegrityError"}

BaseAttrs == {"message", "code", "status_code"}

Bodies ==
    { Leaf(ErrorDetail(<<"x">>)),
      List(<<>>),
      DictOf(<<>>),
      List(<<DictOf(<<>>), List(<<>>)>>),
      DictOf(<<List(<<Leaf(ErrorDetail(<<"Not found.">>))>>)>>),
      SpecExample }

DrfResponses ==
    { NoResponse,
      DrfResponse(DictOf(<<Leaf(ErrorDetail(<<"Not found.">>))>>), 404),
      DrfResponse(List(<<>>), 400) }

Traces == {<<"Traceback A">>, <<"Traceback B">>}

BaseMessages == {StrVal(<<"Invalid token">>), IntVal(42)}

DjangoMarkers == Markers \ {"AppBase"}

\* Every combination of classes, with and without a framework response.
\* Only an application exception carries message, code and status_code; the
\* trace is varied on the exceptions that are of no Django class.
Errors ==
    {ManualResponse(d, 400) : d \in Bodies}
    \cup {Raised(r, m, {}, NoneVal, <<"Traceback A">>) :
            r \in DrfResponses, m \in SUBSET Markers}
    \cup {Raised(r, m \cup {"AppBase"}, BaseAttrs, msg, <<"Traceback A">>) :
            r \in DrfResponses, m \in SUBSET DjangoMarkers, msg \in BaseMessages}
    \cup {Raised(NoResponse, m, {}, NoneVal, <<"Traceback B">>) :
            m \in SUBSET {"AppBase"}}

\* isinstance(exc, cls) for a class object.
IsInstance(exc, name) == name \in exc.mro

\* rest_framework.views.exception_handler(exc, context)
exception_handler(exc) == exc.drf

----------------------------------------------------------------------------
\* The handler

Response(data, status_code) ==
    [kind |-> "response", data |-> data, status_code |-> status_code]
Raise(error) == [kind |-> "raise", error |-> error]
ReturnNone == [kind |-> "none"]

\* str(uuid.uuid4()) of the k-th draw: uuid4 gives a token no other draw gives.
uuid4(k) == "uuid4-" \o ToString(k)

\* What one call did: out is what it returned or raised, log the records it
\* logged, drawn the uuids it drew, attempts the import attempts it made and
\* rule the number of the branch of the handler that ended the call.
Result(rule, out, records, drawn, attempts) ==
    [rule |-> rule, out |-> out, log |-> records, drawn |-> drawn,
     attempts |-> attempts]

\* lines 46-50
ManualResponseResult(exc) ==
    Response([status |-> FALSE, message |-> flatten_errors(exc.data)],
             exc.status_code)

\* lines 55-57
FrameworkResult(response) ==
    Response([status |-> FALSE, message |-> flatten_errors(response.data)],
             response.status_code)

\* lines 61-69: reading exc.message, exc.code or exc.status_code raises
\* AttributeError when the instance has no such attribute.
ProjectBaseWarning(exc) ==
    LogRecord("warning", "handlers",
              <<"Project Base Exception: ">> \o str(exc.message).s
                  \o <<" (Code: ">> \o str(exc.code).s \o <<")">>,
              <<>>)

\* Variant: the response is built with a fixed status 400.
BaseExceptionResult_status400(exc) ==
    IF ~(BaseAttrs \subseteq exc.attrs)
        THEN Result(3, Raise("AttributeError"), <<>>, 0, 0)
    ELSE Result(3,
                Response([status |-> FALSE, message |-> <<exc.message>>,
                          code |-> exc.code],
                         400),
                <<ProjectBaseWarning(exc)>>, 0, 0)

BaseExceptionResult(exc) ==
    IF ~({"message", "code"} \subseteq exc.attrs)
        THEN Result(3, Raise("AttributeError"), <<>>, 0, 0)
    ELSE IF "status_code" \notin exc.attrs
        THEN Result(3, Raise("AttributeError"), <<ProjectBaseWarning(exc)>>, 0, 0)
    ELSE Result(3,
                Response([status |-> FALSE, message |-> <<exc.message>>,
                          code |-> exc.code],
                         exc.status_code),
                <<ProjectBaseWarning(exc)>>, 0, 0)

\* line 73
ValidationResult(exc) ==
    Response([status |-> FALSE, message |-> <<StrVal(exc.text)>>], 400)

\* lines 77-79
NotFoundResult ==
    Response([status |-> FALSE,
              message |-> <<StrVal(<<"Requested object not found.">>)>>], 404)

\* lines 83-85
IntegrityResult ==
    Response([status |-> FALSE,
              message |-> <<StrVal(<<"Database integrity error.">>)>>], 400)

\* line 90
UnhandledRecord(error_id, exc) ==
    LogRecord("error", "handlers",
              <<"[Error ID: ", error_id, "] Unhandled exception">>, exc.trace)

\* Variant: the trace is shown whatever settings.DEBUG is.
UnhandledMessage_always_detailed(debug, error_id, exc) ==
    <<StrVal(<<"Error ID: ", error_id>>), StrVal(exc.trace)>>

\* lines 92-102
UnhandledMessage(debug, error_id, exc) ==
    IF debug
        THEN <<StrVal(<<"Error ID: ", error_id>>), StrVal(exc.trace)>>
    ELSE <<StrVal(<<"Something went wrong. Please share this error ID with support: ",
                    error_id>>)>>

\* Variant: uuid.uuid4() is called once for the log record and again for
\* the payload.
UnhandledResult_two_ids(exc, st, k) ==
    Result(7,
           Response([status |-> FALSE,
                     message |-> UnhandledMessage(st.DEBUG, uuid4(k + 2), exc),
                     error_id |-> uuid4(k + 2)],
                    500),
           <<UnhandledRecord(uuid4(k + 1), exc)>>, 2, 0)

\* lines 89-111
UnhandledResult(exc, st, k) ==
    LET error_id == uuid4(k + 1) IN
    Result(7,
           Response([status |-> FALSE,
                     message |-> UnhandledMessage(st.DEBUG, error_id, exc),
                     error_id |-> error_id],
                    500),
           <<UnhandledRecord(error_id, exc)>>, 1, 0)

\* Variant: IntegrityError is tested before ObjectDoesNotExist.
AfterBaseException_integrity_first(exc, st, k) ==
    IF IsInstance(exc, "DjangoValidationError")
        THEN Result(4, ValidationResult(exc), <<>>, 0, 0)
    ELSE IF IsInstance(exc, "IntegrityError")
        THEN Result(6, IntegrityResult, <<>>, 0, 0)
    ELSE IF IsInstance(exc, "ObjectDoesNotExist")
        THEN Result(5, NotFoundResult, <<>>, 0, 0)
    ELSE UnhandledResult(exc, st, k)

\* lines 72-111, reached when rule 3 did not return
AfterBaseException(exc, st, k) ==
    IF IsInstance(exc, "DjangoValidationError")
        THEN Result(4, ValidationResult(exc), <<>>, 0, 0)
    ELSE IF IsInstance(exc, "ObjectDoesNotExist")
        THEN Result(5, NotFoundResult, <<>>, 0, 0)
    ELSE IF IsInstance(exc, "IntegrityError")
        THEN Result(6, IntegrityResult, <<>>, 0, 0)
    ELSE IF ~exception_handler(exc).handled
        THEN UnhandledResult(exc, st, k)
    ELSE Result(8, ReturnNone, <<>>, 0, 0)

\* Lines 59-111: r is what the rest of the handler does once
\* get_configured_base_exception_class() has returned resolved.
AfterResolution(resolved, r) ==
    Result(r.rule, r.out, resolved.log \o r.log, r.drawn, resolved.attempts)

\* custom_exception_handler(exc, context) under settings st, after k uuid
\* draws.
custom_exception_handler(exc, st, k) ==
    IF exc.cls = "Response" THEN Result(1, ManualResponseResult(exc), <<>>, 0, 0)
    ELSE LET response == exception_handler(exc) IN
    IF response.handled THEN Result(2, FrameworkResult(response), <<>>, 0, 0)
    ELSE LET resolved == get_configured_base_exception_class(st)
             BaseExceptionClass == resolved.value IN
    IF BaseExceptionClass.kind # "NoneType" /\ BaseExceptionClass.kind # "class"
        \* line 60: isinstance() arg 2 must be a type
        THEN AfterResolution(resolved, Result(3, Raise("TypeError"), <<>>, 0, 0))
    ELSE IF BaseExceptionClass.kind = "class"
            /\ IsInstance(exc, BaseExceptionClass.name)
        THEN AfterResolution(resolved, BaseExceptionResult(exc))
    ELSE AfterResolution(resolved, AfterBaseException(exc, st, k))

----------------------------------------------------------------------------
\* The state machine: one action per call

\* A call: its argument, and what the handler did.
Call(exc, r) ==
    [exc |-> exc, rule |-> r.rule, out |-> r.out, log |-> r.log,
     drawn |-> r.drawn, attempts |-> r.attempts]

NoCall == Call(ManualResponse(Leaf(NoneVal), 0), Result(0, ReturnNone, <<>>, 0, 0))

Init ==
    /\ settings \in Settings
    /\ log = <<>>
    /\ uuids = 0
    /\ last = NoCall
    /\ calls = 0
    /\ reached = 0
    /\ resolutions = 0
    /\ error_data = Leaf(NoneVal)
    /\ messages = <<>>
    /\ returned = FALSE

\* The framework calls the handler with an error raised while handling a request.
Handle(exc) ==
    /\ calls < MaxCalls
    /\ last' = Call(exc, custom_exception_handler(exc, settings, uuids))
    /\ log' = log \o last'.log
    /\ uuids' = uuids + last'.drawn
    /\ resolutions' = resolutions + last'.attempts
    /\ calls' = calls + 1
    /\ reached' = reached + (IF exc.cls # "Response" /\ ~exc.drf.handled THEN 1 ELSE 0)
    /\ UNCHANGED <<settings, error_data, messages, returned>>

Next == \E exc \in Errors : Handle(exc)

Spec == Init /\ [][Next]_vars

\* The flattener alone, on every tree of Trees.
InitFlatten ==
    /\ settings = [CUSTOM_BASE_EXCEPTION |-> PathNone, DEBUG |-> FALSE]
    /\ log = <<>>
    /\ uuids = 0
    /\ last = NoCall
    /\ calls = 0
    /\ reached = 0
    /\ resolutions = 0
    /\ error_data \in Trees
    /\ messages = <<>>
    /\ returned = FALSE

Flatten ==
    /\ ~returned
    /\ messages' = flatten_errors(error_data)
    /\ returned' = TRUE
    /\ UNCHANGED <<error_data, settings, log, uuids, last, calls, reached, resolutions>>

NextFlatten == Flatten

SpecFlatten == InitFlatten /\ [][NextFlatten]_vars

----------------------------------------------------------------------------
\* Vocabulary of the properties

Range(seq) == {seq[i] : i \in 1..Len(seq)}

Called == calls > 0

\* The number of uuids drawn before the latest call.
DrawnBefore == uuids - last.drawn

\* The records of the latest call that the handler itself logged.
OwnRecords(records) == SelectSeq(records, LAMBDA r : r.logger = "handlers")

ImportWarnings(records) == SelectSeq(records, LAMBDA r : r.logger = "utils")

ErrorRecords(records) == SelectSeq(records, LAMBDA r : r.level = "error")

\* The reference is set and importing it fails.
Unresolvable(st) ==
    /\ Truthy(st.CUSTOM_BASE_EXCEPTION)
    /\ ImportError(st.CUSTOM_BASE_EXCEPTION) # ""

\* The classes the reference names: at most one.
ConfiguredClasses(st) ==
    LET path == st.CUSTOM_BASE_EXCEPTION IN
    IF Truthy(path) /\ ImportError(path) = ""
       /\ ModuleAttrs[path.parts[Len(path.parts)]].kind = "class"
        THEN {ModuleAttrs[path.parts[Len(path.parts)]].name}
    ELSE {}

\* The lowest-numbered rule of the decision chain whose condition the error
\* satisfies.
FirstRule(exc, st) ==
    IF exc.cls = "Response" THEN 1
    ELSE IF exc.drf.handled THEN 2
    ELSE IF ConfiguredClasses(st) \cap exc.mro # {} THEN 3
    ELSE IF "DjangoValidationError" \in exc.mro THEN 4
    ELSE IF "ObjectDoesNotExist" \in exc.mro THEN 5
    ELSE IF "IntegrityError" \in exc.mro THEN 6
    ELSE 7

\* What each rule, taken alone, returns and logs for the error.
RuleResponse(rule, exc, st, k) ==
    CASE rule = 1 -> Response([status |-> FALSE, message |-> flatten_errors(exc.data)],
                              exc.status_code)
      [] rule = 2 -> Response([status |-> FALSE,
                               message |-> flatten_errors(exc.drf.data)],
                              exc.drf.status_code)
      [] rule = 3 -> Response([status |-> FALSE, message |-> <<exc.message>>,
                               code |-> exc.code],
                              exc.status_code)
      [] rule = 4 -> Response([status |-> FALSE, message |-> <<StrVal(exc.text)>>], 400)
      [] rule = 5 -> NotFoundResult
      [] rule = 6 -> IntegrityResult
      [] OTHER -> Response([status |-> FALSE,
                            message |-> UnhandledMessage(st.DEBUG, uuid4(k + 1), exc),
                            error_id |-> uuid4(k + 1)],
                           500)

RuleRecords(rule, exc, k) ==
    CASE rule = 3 -> <<ProjectBaseWarning(exc)>>
      [] rule = 7 -> <<UnhandledRecord(uuid4(k + 1), exc)>>
      [] OTHER -> <<>>

\* The standardized body: status false, message a list, optionally code and
\* error_id, and nothing else.
StandardShape(data) ==
    /\ {"status", "message"} \subseteq DOMAIN data
    /\ DOMAIN data \subseteq {"status", "message", "code", "error_id"}
    /\ data.status = FALSE

----------------------------------------------------------------------------
\* C1: for every error and configuration the handler returns the payload and
\* status code, and logs the records, of the lowest-numbered rule whose
\* condition the error satisfies. Violated: with a reference that resolves
\* to an object that is no class, or an instance of the configured class
\* without the three attributes, the handler raises instead (see C8).
C1_FirstMatchingRuleDecides ==
    Called =>
        /\ last.out = RuleResponse(FirstRule(last.exc, settings), last.exc,
                                   settings, DrawnBefore)
        /\ OwnRecords(last.log) = RuleRecords(FirstRule(last.exc, settings),
                                              last.exc, DrawnBefore)

\* C2: for an error resolved by rules 1-6 the message of the payload is a
\* non-empty flat sequence of strings. Violated: an empty body flattens to an
\* empty message, and rule 3 copies a message attribute of any type.
C2_MessageNonEmptyStrings ==
    (Called /\ last.rule \in 1..6 /\ last.out.kind = "response") =>
        /\ last.out.data.message # <<>>
        /\ \A m \in Range(last.out.data.message) : IsString(m)

\* C8: for every error and every configuration the handler returns a
\* response with the standardized body; it neither raises nor returns None.
\* Violated: isinstance raises TypeError when the reference resolves to an
\* object that is no class, and reading a missing attribute raises
\* AttributeError.
C8_AlwaysStandardResponse ==
    Called =>
        /\ last.out.kind = "response"
        /\ StandardShape(last.out.data)

----------------------------------------------------------------------------
\* The leaves of a tree by position

\* The i-th child of a container.
ChildAt(tree, i) == IF tree.t = "list" THEN tree.items[i] ELSE tree.items[i].v

RECURSIVE LeafPaths(_)
\* The positions of the leaves: the child indices from the root to each.
LeafPaths(tree) ==
    IF tree.t = "leaf" THEN {<<>>}
    ELSE UNION {{<<i>> \o p : p \in LeafPaths(ChildAt(tree, i))} :
                    i \in 1..Len(tree.items)}

RECURSIVE LeafAt(_, _)
LeafAt(tree, p) ==
    IF p = <<>> THEN tree.val ELSE LeafAt(ChildAt(tree, Head(p)), Tail(p))

\* p comes before q, left to right.
Before(p, q) ==
    \E i \in 1..Len(p) :
        /\ i <= Len(q)
        /\ p[i] < q[i]
        /\ \A j \in 1..(i - 1) : p[j] = q[j]

Rank(tree, p) == Cardinality({q \in LeafPaths(tree) : Before(q, p)}) + 1

\* C4: flatten_errors returns the string forms of the leaves of the tree in
\* depth-first, left-to-right order: as many entries as leaves, the i-th
\* entry being str of the i-th leaf in the lexicographic order of the
\* positions; keys are dropped and empty containers add nothing.
C4_FlattenIsLeavesInOrder ==
    returned =>
        /\ Len(messages) = Cardinality(LeafPaths(error_data))
        /\ \A p \in LeafPaths(error_data) :
            /\ messages[Rank(error_data, p)].ty = "str"
            /\ messages[Rank(error_data, p)] = str(LeafAt(error_data, p))

\* The spec's example, flattened: keys dropped, order kept.
C4_Witness ==
    /\ returned
    /\ error_data = SpecExample
    /\ messages = <<StrVal(<<"x">>), StrVal(<<"y">>), StrVal(<<"z">>)>>

----------------------------------------------------------------------------
\* C3: for an error that reaches rule 7, in debug mode the trace text is an
\* element of the message; otherwise the message is one string made of a
\* fixed text and the error id, no part of the payload holds any of the
\* trace, and the same error with any other trace gets the same payload.
C3_TraceOnlyInDebug ==
    (Called /\ last.rule = 7) =>
        LET data == last.out.data IN
        /\ settings.DEBUG => StrVal(last.exc.trace) \in Range(data.message)
        /\ ~settings.DEBUG =>
            /\ DOMAIN data = {"status", "message", "error_id"}
            /\ Len(data.message) = 1
            /\ Len(data.message[1].s) = 2
            /\ data.message[1].s[2] = data.error_id
            /\ \A m \in Range(data.message) :
                    Range(m.s) \cap Range(last.exc.trace) = {}
            /\ data.error_id \notin Range(last.exc.trace)
            /\ \A t \in Traces :
                    custom_exception_handler([last.exc EXCEPT !.trace = t],
                                             settings, DrawnBefore).out = last.out

\* A non-debug run whose unclassified error carried the second trace.
C3_Witness ==
    /\ Called
    /\ last.rule = 7
    /\ ~settings.DEBUG
    /\ last.exc.trace = <<"Traceback B">>
    /\ last.out.status_code = 500

----------------------------------------------------------------------------
\* The error is an instance of the class the reference names and carries
\* message, code and status_code.
C5_ConfiguredInstance ==
    /\ Called
    /\ ConfiguredClasses(settings) \cap last.exc.mro # {}
    /\ BaseAttrs \subseteq last.exc.attrs

\* The rule 3 payload at the error's own status, and a warning record of
\* the handler holding the message and the code.
C5_BaseExceptionOutcome ==
    /\ last.out = Response([status |-> FALSE, message |-> <<last.exc.message>>,
                            code |-> last.exc.code],
                           last.exc.status_code)
    /\ \E r \in Range(last.log) :
        /\ r.level = "warning"
        /\ r.logger = "handlers"
        /\ Range(str(last.exc.message).s) \subseteq Range(r.msg)
        /\ Range(str(last.exc.code).s) \subseteq Range(r.msg)

\* C5 as stated: an instance of the configured base exception type with
\* message, code and status_code gets {status: false, message: [message],
\* code: code} at status status_code, and a warning is logged. Violated by an
\* instance that the framework's default handler translates (rule 2).
C5_Original == C5_ConfiguredInstance => C5_BaseExceptionOutcome

\* C5 amended: the same, for an instance that the framework's default
\* handler returns nothing for.
C5_BaseExceptionPayload ==
    (C5_ConfiguredInstance /\ ~last.exc.drf.handled) => C5_BaseExceptionOutcome

\* The spec's example: "Invalid token", AUTH001, 401.
C5_Witness ==
    /\ C5_ConfiguredInstance
    /\ ~last.exc.drf.handled
    /\ last.exc.message = StrVal(<<"Invalid token">>)
    /\ last.out.kind = "response"
    /\ last.out.status_code = 401
    /\ last.out.data.code = StrVal(<<"AUTH001">>)
    /\ Len(last.log) = 1

----------------------------------------------------------------------------
C6_NotFoundSignal == Called /\ "ObjectDoesNotExist" \in last.exc.mro

C6_NotFoundOutcome ==
    /\ last.out.kind = "response"
    /\ last.out.status_code = 404
    /\ last.out.data.message = <<StrVal(<<"Requested object not found.">>)>>

----------------------------------------------------------------------------
\* The settings with the reference removed.
Unconfigured == [settings EXCEPT !.CUSTOM_BASE_EXCEPTION = PathNone]

\* C7: when the reference is set and cannot be resolved, every call returns
\* a response; a call that gets past rules 1 and 2 logs a warning of the
\* resolver and ends in one of rules 4-7; and what the call returns and what
\* the handler itself logs are what they are with no reference configured.
C7_FailedResolutionIsAbsentRule ==
    (Called /\ Unresolvable(settings)) =>
        /\ last.out.kind = "response"
        /\ (last.exc.cls # "Response" /\ ~last.exc.drf.handled) =>
            /\ last.rule \in 4..7
            /\ Len(ImportWarnings(last.log)) = 1
            /\ ImportWarnings(last.log)[1].level = "warning"
        /\ last.out = custom_exception_handler(last.exc, Unconfigured,
                                               DrawnBefore).out
        /\ OwnRecords(last.log) = custom_exception_handler(last.exc, Unconfigured,
                                                           DrawnBefore).log

\* The second call under an unresolvable reference, for an instance of the
\* application's base class: unclassified, and a warning on each call.
C7_Witness ==
    /\ calls = 2
    /\ Unresolvable(settings)
    /\ "AppBase" \in last.exc.mro
    /\ last.rule = 7
    /\ Len(ImportWarnings(log)) = 2

----------------------------------------------------------------------------
\* C9 as stated: over a run the reference is resolved once, so at most one
\* warning of the resolver is logged however many errors reach rule 3.
\* Violated by two calls that reach rule 3 under an unresolvable reference.
C9_Original ==
    /\ resolutions <= 1
    /\ Len(ImportWarnings(log)) <= 1

\* C9 amended: the reference is resolved once on every call that gets past
\* rules 1 and 2 when it is set, and never when it is unset; with an
\* unresolvable reference one warning is logged per resolution, that is one
\* per such call, and none is logged otherwise.
C9_ResolutionPerCall ==
    /\ resolutions = (IF Truthy(settings.CUSTOM_BASE_EXCEPTION) THEN reached ELSE 0)
    /\ Len(ImportWarnings(log)) = (IF Unresolvable(settings) THEN resolutions ELSE 0)

C9_Witness ==
    /\ calls = 2
    /\ Unresolvable(settings)
    /\ reached = 2
    /\ resolutions = 2
    /\ Len(ImportWarnings(log)) = 2

----------------------------------------------------------------------------
\* The error id an error record was logged with.
LoggedId(r) == r.msg[2]

\* C10: every unclassified failure draws exactly one uuid; the ids logged
\* over the run are pairwise different; the id of the latest failure is
\* non-empty, was in no earlier record, is the one in its error record (which
\* carries the trace, in debug mode or not), in error_id and in the message;
\* a call ended by rules 1-6 draws no id, logs no error record and has no
\* error_id in its payload.
C10_OneFreshErrorId ==
    /\ Len(ErrorRecords(log)) = uuids
    /\ \A i, j \in 1..Len(ErrorRecords(log)) :
        i # j => LoggedId(ErrorRecords(log)[i]) # LoggedId(ErrorRecords(log)[j])
    /\ (Called /\ last.rule = 7) =>
        LET id == last.out.data.error_id IN
        /\ last.drawn = 1
        /\ id # ""
        /\ Len(ErrorRecords(last.log)) = 1
        /\ LoggedId(ErrorRecords(last.log)[1]) = id
        /\ ErrorRecords(last.log)[1].exc_info = last.exc.trace
        /\ \E m \in Range(last.out.data.message) : id \in Range(m.s)
        /\ \A i \in 1..(Len(log) - Len(last.log)) : id \notin Range(log[i].msg)
    /\ (Called /\ last.rule \in 1..6) =>
        /\ last.drawn = 0
        /\ ErrorRecords(last.log) = <<>>
        /\ last.out.kind = "response" => "error_id" \notin DOMAIN last.out.data

\* Two unclassified failures in one run.
C10_Witness ==
    /\ calls = 2
    /\ uuids = 2
    /\ last.rule = 7
    /\ Len(ErrorRecords(log)) = 2

====
